---- MODULE Spec2Model ----
(***************************************************************************)
(* Model of httpfuzz's plugin broker (LoadPlugins, SendResult, SignalDone, *)
(* Wait, the per-plugin worker goroutine) and of the body-clone primitives *)
(* Request.CloneBody and Response.CloneBody.                               *)
(*                                                                         *)
(* Heap objects are numbered.  reqBody[o] / respBody[o] is the Body field  *)
(* of Request / Response wrapper o: a stream, modelled by the bytes that   *)
(* are still unread.  results[r] holds the fields of Result r.             *)
(* The producer is one goroutine: it calls LoadPlugins, then SendResult    *)
(* any number of times, then SignalDone.  Wait is called by a goroutine    *)
(* of its own, at any time once the broker exists.  MisuseSpec adds        *)
(* callers that go on after SignalDone; CloneSpec takes CloneBody alone,   *)
(* on one wrapper whose streams and maps are heap objects.                 *)
(***************************************************************************)
EXTENDS Integers, Sequences, FiniteSets, TLC

\* ---------------------------------------------------------------- bounds
MaxPlugins == 2
MaxResults == 2
MaxSignals == 2
MaxClones == 2

\* --------------------------------------------------------- body streams
\* A body is nil (no stream), a stream whose Read fails, or a stream with
\* `rest` still to be read.
Nil == [kind |-> "nil", rest |-> <<>>]
ErrBody == [kind |-> "err", rest |-> <<>>]
NopCloser(bytes) == [kind |-> "data", rest |-> bytes]

\* the bodies a producer puts in a Result
RequestBodies == {Nil, ErrBody, NopCloser(<<1, 2>>)}
ResponseBodies == {Nil, ErrBody, NopCloser(<<3>>)}
\* what a plugin puts in place of a body it can reach
PluginBodies == {ErrBody}

LoadOutcomes == {"ok", "openErr", "lookupErr", "initErr"}
BodyKinds == {"req", "resp"}

VARIABLES
    pc,        \* position of the producer (LoadPlugins, then the broker API)
    paths,     \* outcome of each path LoadPlugins has processed so far
    plugins,   \* len(p.plugins)
    waitGroup, \* p.waitGroup counter
    closed,    \* closed[i]: plugin i's Input channel has been closed
    wk,        \* wk[i]: position of plugin i's worker goroutine
    recv,      \* recv[i]: what plugin i's Listen received, in order
    results,   \* results[r]: the Request / Response fields of Result r
    origs,     \* origs[r]: Result r as the producer built it
    reqBody,   \* heap of Request wrappers: their Body
    respBody,  \* heap of Response wrappers: their Body
    idx,       \* loop index of SendResult / SignalDone
    buf,       \* bytes drained by the CloneBody call in progress
    req,       \* SendResult's local req (a Request wrapper), 0 if unset
    rets,      \* rets[r]: what SendResult(Result r) returned
    errs,      \* the Results for which a CloneBody call returned an error
    wpc,       \* position of the goroutine that calls Wait
    calls,     \* the SendResult and SignalDone calls made so far, in order
    msgs,      \* CloneBody on its own: msgs[1] the wrapper, then its clones
    streams,   \* heap of body streams: the bytes still unread
    maps,      \* heap of header and trailer maps
    hist,      \* hist[m]: what msgs[m]'s body held when made, bytes read
    cret       \* what the last CloneBody call did

\* the broker's part of the state, and the part of CloneBody taken alone
bvars == <<pc, paths, plugins, waitGroup, closed, wk, recv, results, origs,
           reqBody, respBody, idx, buf, req, rets, errs, wpc, calls>>
cvars == <<msgs, streams, maps, hist, cret>>

vars == <<pc, paths, plugins, waitGroup, closed, wk, recv, results, origs,
          reqBody, respBody, idx, buf, req, rets, errs, wpc, calls, msgs,
          streams, maps, hist, cret>>

Slots == 1..MaxPlugins
Registered == 1..plugins
\* the Result of the SendResult call in progress (or of the last one)
cur == Len(results)
\* how many times SignalDone has been called
Signals == Cardinality({k \in 1..Len(calls) : calls[k] = "SignalDone"})

Init ==
    /\ pc = "load"
    /\ paths = <<>>
    /\ plugins = 0
    /\ waitGroup = 0
    /\ closed = [i \in Slots |-> FALSE]
    /\ wk = [i \in Slots |-> "none"]
    /\ recv = [i \in Slots |-> <<>>]
    /\ results = <<>>
    /\ origs = <<>>
    /\ reqBody = <<>>
    /\ respBody = <<>>
    /\ idx = 0
    /\ buf = <<>>
    /\ req = 0
    /\ rets = <<>>
    /\ errs = {}
    /\ wpc = "idle"
    /\ calls = <<>>
    /\ msgs = <<>>
    /\ streams = <<>>
    /\ maps = <<>>
    /\ hist = <<>>
    /\ cret = "none"

\* A panic in any goroutine takes the whole process down.
Alive == pc # "panic"

\* ------------------------------------------------------------ LoadPlugins
\* add without waitGroup.Add(1)
addNoCount ==
    /\ plugins' = plugins + 1
    /\ waitGroup' = waitGroup

\* broker.add(httpfuzzPlugin)
add ==
    /\ plugins' = plugins + 1
    /\ waitGroup' = waitGroup + 1

\* broker.run(httpfuzzPlugin, input): the goroutine exists, not yet scheduled
run ==
    wk' = [wk EXCEPT ![plugins + 1] = "Idle"]

\* LoadPlugins returning the broker built so far when a path fails
LoadPluginsPartial(out) ==
    /\ pc = "load"
    /\ plugins < MaxPlugins
    /\ paths' = Append(paths, out)
    /\ IF out = "ok"
         THEN add /\ run /\ pc' = pc
         ELSE pc' = "idle" /\ UNCHANGED <<plugins, waitGroup, wk>>
    /\ UNCHANGED <<closed, recv, results, origs, reqBody, respBody, idx, buf,
                   req, rets, errs, wpc>>
    /\ UNCHANGED <<calls, cvars>>

\* LoadPlugins closing the channels it has made when a path fails
LoadPluginsCleanup(out) ==
    /\ pc = "load"
    /\ plugins < MaxPlugins
    /\ paths' = Append(paths, out)
    /\ IF out = "ok"
         THEN add /\ run /\ pc' = pc /\ UNCHANGED closed
         ELSE /\ pc' = "noBroker"
              /\ closed' = [i \in Slots |-> i <= plugins]
              /\ UNCHANGED <<plugins, waitGroup, wk>>
    /\ UNCHANGED <<recv, results, origs, reqBody, respBody, idx, buf, req,
                   rets, errs, wpc>>
    /\ UNCHANGED <<calls, cvars>>

\* One iteration of the loop over paths: plugin.Open, Lookup("New"), the
\* initializer, then make(chan *Result), broker.add and broker.run.
LoadPlugins(out) ==
    /\ pc = "load"
    /\ plugins < MaxPlugins
    /\ paths' = Append(paths, out)
    /\ IF out = "ok"
         THEN add /\ run /\ pc' = pc
         ELSE pc' = "noBroker" /\ UNCHANGED <<plugins, waitGroup, wk>>
    /\ UNCHANGED <<closed, recv, results, origs, reqBody, respBody, idx, buf,
                   req, rets, errs, wpc>>
    /\ UNCHANGED <<calls, cvars>>

\* The loop over paths is over: return broker, nil.
LoadReturn ==
    /\ pc = "load"
    /\ pc' = "idle"
    /\ UNCHANGED <<paths, plugins, waitGroup, closed, wk, recv, results,
                   origs, reqBody, respBody, idx, buf, req, rets, errs, wpc>>
    /\ UNCHANGED <<calls, cvars>>

\* ------------------------------------------------------------- the worker
\* The goroutine started by run is scheduled and calls plugin.Listen.
Run(i) ==
    /\ Alive
    /\ wk[i] = "Idle"
    /\ wk' = [wk EXCEPT ![i] = "Listening"]
    /\ UNCHANGED <<pc, paths, plugins, waitGroup, closed, recv, results,
                   origs, reqBody, respBody, idx, buf, req, rets, errs, wpc>>
    /\ UNCHANGED <<calls, cvars>>

\* Listen returning while its channel is still open
ListenReturnEarly(i) ==
    /\ Alive
    /\ wk[i] = "Listening"
    /\ wk' = [wk EXCEPT ![i] = "Returned"]
    /\ UNCHANGED <<pc, paths, plugins, waitGroup, closed, recv, results,
                   origs, reqBody, respBody, idx, buf, req, rets, errs, wpc>>
    /\ UNCHANGED <<calls, cvars>>

\* Listen's receive loop sees its channel closed, and Listen returns.
ListenReturn(i) ==
    /\ Alive
    /\ wk[i] = "Listening"
    /\ closed[i]
    /\ wk' = [wk EXCEPT ![i] = "Returned"]
    /\ UNCHANGED <<pc, paths, plugins, waitGroup, closed, recv, results,
                   origs, reqBody, respBody, idx, buf, req, rets, errs, wpc>>
    /\ UNCHANGED <<calls, cvars>>

\* p.waitGroup.Done() after Listen has returned.
Done(i) ==
    /\ Alive
    /\ wk[i] = "Returned"
    /\ wk' = [wk EXCEPT ![i] = "Done"]
    /\ waitGroup' = waitGroup - 1
    /\ UNCHANGED <<pc, paths, plugins, closed, recv, results, origs, reqBody,
                   respBody, idx, buf, req, rets, errs, wpc>>
    /\ UNCHANGED <<calls, cvars>>

\* A Listen that stops receiving from its channel and never returns.
ListenStall(i) ==
    /\ Alive
    /\ wk[i] = "Listening"
    /\ wk' = [wk EXCEPT ![i] = "Stalled"]
    /\ UNCHANGED <<pc, paths, plugins, waitGroup, closed, recv, results,
                   origs, reqBody, respBody, idx, buf, req, rets, errs, wpc>>
    /\ UNCHANGED <<calls, cvars>>

\* ------------------------------------------------------------- SendResult
\* LoopTo with the loop ending one plugin early
LoopToEarly(j) ==
    /\ idx' = j
    /\ IF j >= plugins
         THEN pc' = "idle" /\ rets' = Append(rets, "nil")
         ELSE pc' = "reqClone" /\ rets' = rets

\* LoopTo as a loop that tests its bound after the body
LoopToCloneFirst(j) ==
    /\ idx' = j
    /\ IF j > plugins /\ j > 1
         THEN pc' = "idle" /\ rets' = Append(rets, "nil")
         ELSE pc' = "reqClone" /\ rets' = rets

\* The loop over p.plugins moves to index j: the next iteration, or
\* `return nil` after the last one.
LoopTo(j) ==
    /\ idx' = j
    /\ IF j > plugins
         THEN pc' = "idle" /\ rets' = Append(rets, "nil")
         ELSE pc' = "reqClone" /\ rets' = rets

\* ReturnErr as `continue`: the loop goes on with the next plugin and the
\* error is returned after the last one
ContinueOnErr ==
    /\ idx' = idx + 1
    /\ IF idx + 1 > plugins
         THEN pc' = "idle" /\ rets' = Append(rets, "err")
         ELSE pc' = "reqClone" /\ rets' = rets

\* `if err != nil { return err }` after a CloneBody call that failed.
ReturnErr ==
    /\ pc' = "idle"
    /\ rets' = Append(rets, "err")
    /\ idx' = idx

\* The fields of Result r other than Request and Response, as the producer
\* sets them: each Result has its own values.
Metadata(r) ==
    [Payload |-> r, Location |-> r, FieldName |-> r, TimeElapsed |-> r]

\* The producer builds a Result and calls SendResult(result).
SendResult(rb, pb) ==
    /\ pc = "idle"
    /\ cur < MaxResults
    /\ reqBody' = Append(reqBody, rb)
    /\ respBody' = Append(respBody, pb)
    /\ results' = Append(results, [Request |-> Len(reqBody) + 1,
                                   Response |-> Len(respBody) + 1,
                                   Metadata |-> Metadata(cur + 1)])
    /\ origs' = Append(origs, [Request |-> Len(reqBody) + 1,
                               Response |-> Len(respBody) + 1,
                               Metadata |-> Metadata(cur + 1),
                               reqBody |-> rb, respBody |-> pb])
    /\ req' = 0
    /\ calls' = Append(calls, "SendResult")
    /\ LoopTo(1)
    /\ UNCHANGED <<paths, plugins, waitGroup, closed, wk, recv, buf, errs,
                   wpc>>
    /\ UNCHANGED cvars

\* result.Request.CloneBody up to and including ioutil.ReadAll: r.Request.Clone
\* copies the Body field, so ReadAll(req.Body) drains the original's stream.
RequestCloneBodyRead ==
    /\ pc = "reqClone"
    /\ LET o == results[cur].Request
           b == reqBody[o]
       IN  CASE b.kind = "nil" ->
                  /\ reqBody' = Append(reqBody, Nil)
                  /\ req' = Len(reqBody) + 1
                  /\ pc' = "respClone"
                  /\ UNCHANGED <<buf, rets, errs, idx>>
             [] b.kind = "err" ->
                  /\ errs' = errs \cup {cur}
                  /\ ReturnErr
                  /\ UNCHANGED <<reqBody, req, buf>>
             [] OTHER ->
                  /\ buf' = b.rest
                  /\ reqBody' = [reqBody EXCEPT ![o] = NopCloser(<<>>)]
                  /\ pc' = "reqPut"
                  /\ UNCHANGED <<req, rets, errs, idx>>
    /\ UNCHANGED <<paths, plugins, waitGroup, closed, wk, recv, results,
                   origs, respBody, wpc>>
    /\ UNCHANGED <<calls, cvars>>

\* result.Request.CloneBody, the two Body assignments and the return.
RequestCloneBodyPut ==
    /\ pc = "reqPut"
    /\ LET o == results[cur].Request
       IN  reqBody' = Append([reqBody EXCEPT ![o] = NopCloser(buf)],
                             NopCloser(buf))
    /\ req' = Len(reqBody) + 1
    /\ pc' = "respClone"
    /\ buf' = <<>>
    /\ UNCHANGED <<paths, plugins, waitGroup, closed, wk, recv, results,
                   origs, respBody, idx, rets, errs, wpc>>
    /\ UNCHANGED <<calls, cvars>>

\* result.Response.CloneBody up to and including ioutil.ReadAll, which
\* dereferences a nil Body.
ResponseCloneBodyRead ==
    /\ pc = "respClone"
    /\ LET o == results[cur].Response
           b == respBody[o]
       IN  CASE b.kind = "nil" ->
                  /\ pc' = "panic"
                  /\ UNCHANGED <<respBody, buf, rets, errs, idx>>
             [] b.kind = "err" ->
                  /\ errs' = errs \cup {cur}
                  /\ ReturnErr
                  /\ UNCHANGED <<respBody, buf>>
             [] OTHER ->
                  /\ buf' = b.rest
                  /\ respBody' = [respBody EXCEPT ![o] = NopCloser(<<>>)]
                  /\ pc' = "respPut"
                  /\ UNCHANGED <<rets, errs, idx>>
    /\ UNCHANGED <<paths, plugins, waitGroup, closed, wk, recv, results,
                   origs, reqBody, req, wpc>>
    /\ UNCHANGED <<calls, cvars>>

\* result.Response.CloneBody, the two Body assignments and the return; then
\* result.Request = req and result.Response = resp.
ResponseCloneBodyPut ==
    /\ pc = "respPut"
    /\ LET o == results[cur].Response
       IN  respBody' = Append([respBody EXCEPT ![o] = NopCloser(buf)],
                              NopCloser(buf))
    /\ results' = [results EXCEPT ![cur].Request = req,
                                  ![cur].Response = Len(respBody) + 1]
    /\ pc' = "send"
    /\ buf' = <<>>
    /\ req' = 0
    /\ UNCHANGED <<paths, plugins, waitGroup, closed, wk, recv, origs,
                   reqBody, idx, rets, errs, wpc>>
    /\ UNCHANGED <<calls, cvars>>

\* What plugin i's Listen holds once it has received the pointer to Result r:
\* the Result and the Request and Response it points to at that moment.
Delivery(r) ==
    [res |-> r, req |-> results[r].Request, resp |-> results[r].Response]

\* Send with the newest Result overtaking the ones sent before it
SendNewestFirst(i) ==
    /\ pc = "send"
    /\ idx = i
    /\ wk[i] = "Listening"
    /\ ~closed[i]
    /\ recv' = [recv EXCEPT ![i] = <<Delivery(cur)>> \o @]
    /\ LoopTo(idx + 1)
    /\ UNCHANGED <<paths, plugins, waitGroup, closed, wk, results, origs,
                   reqBody, respBody, buf, req, errs, wpc>>
    /\ UNCHANGED <<calls, cvars>>

\* Send on a buffered channel: it completes with no receiver
SendBuffered(i) ==
    /\ pc = "send"
    /\ idx = i
    /\ ~closed[i]
    /\ recv' = [recv EXCEPT ![i] = Append(@, Delivery(cur))]
    /\ LoopTo(idx + 1)
    /\ UNCHANGED <<paths, plugins, waitGroup, closed, wk, results, origs,
                   reqBody, respBody, buf, req, errs, wpc>>
    /\ UNCHANGED <<calls, cvars>>

\* Send dropping the Result when the channel is closed
SendDropsOnClosed(i) ==
    /\ pc = "send"
    /\ idx = i
    /\ IF closed[i]
         THEN recv' = recv /\ LoopTo(idx + 1)
         ELSE /\ wk[i] = "Listening"
              /\ recv' = [recv EXCEPT ![i] = Append(@, Delivery(cur))]
              /\ LoopTo(idx + 1)
    /\ UNCHANGED <<paths, plugins, waitGroup, closed, wk, results, origs,
                   reqBody, respBody, buf, req, errs, wpc>>
    /\ UNCHANGED <<calls, cvars>>

\* plugin.Input <- result: the send on the unbuffered channel completes in
\* the step in which plugin i's Listen receives; on a closed channel it panics.
Send(i) ==
    /\ pc = "send"
    /\ idx = i
    /\ IF closed[i]
         THEN pc' = "panic" /\ UNCHANGED <<recv, idx, rets>>
         ELSE /\ wk[i] = "Listening"
              /\ recv' = [recv EXCEPT ![i] = Append(@, Delivery(cur))]
              /\ LoopTo(idx + 1)
    /\ UNCHANGED <<paths, plugins, waitGroup, closed, wk, results, origs,
                   reqBody, respBody, buf, req, errs, wpc>>
    /\ UNCHANGED <<calls, cvars>>

\* ------------------------------------------------------------- SignalDone
\* The producer calls SignalDone.
SignalDoneCall ==
    /\ pc = "idle"
    /\ Signals < MaxSignals
    /\ calls' = Append(calls, "SignalDone")
    /\ pc' = IF plugins = 0 THEN "finished" ELSE "closing"
    /\ idx' = 1
    /\ UNCHANGED <<paths, plugins, waitGroup, closed, wk, recv, results,
                   origs, reqBody, respBody, buf, req, rets, errs, wpc>>
    /\ UNCHANGED cvars

\* SignalDone with its loop ending before the last plugin
SignalDoneSkipsLast ==
    /\ pc = "closing"
    /\ closed' = [closed EXCEPT ![idx] = TRUE]
    /\ idx' = idx + 1
    /\ pc' = IF idx + 1 >= plugins THEN "finished" ELSE "closing"
    /\ UNCHANGED <<paths, plugins, waitGroup, wk, recv, results, origs,
                   reqBody, respBody, buf, req, rets, errs, wpc>>
    /\ UNCHANGED <<calls, cvars>>

\* One iteration of SignalDone's loop: close(plugin.Input), which panics on
\* a channel that is closed already.
SignalDone ==
    /\ pc = "closing"
    /\ IF closed[idx]
         THEN pc' = "panic" /\ UNCHANGED <<closed, idx>>
         ELSE /\ closed' = [closed EXCEPT ![idx] = TRUE]
              /\ idx' = idx + 1
              /\ pc' = IF idx + 1 > plugins THEN "finished" ELSE "closing"
    /\ UNCHANGED <<paths, plugins, waitGroup, wk, recv, results, origs,
                   reqBody, respBody, buf, req, rets, errs, wpc>>
    /\ UNCHANGED <<calls, cvars>>

\* ------------------------------------------------------------------- Wait
\* Some goroutine that holds the broker calls Wait.
WaitCall ==
    /\ pc \notin {"load", "noBroker", "panic"}
    /\ wpc = "idle"
    /\ wpc' = "waiting"
    /\ UNCHANGED <<pc, paths, plugins, waitGroup, closed, wk, recv, results,
                   origs, reqBody, respBody, idx, buf, req, rets, errs>>
    /\ UNCHANGED <<calls, cvars>>

\* p.waitGroup.Wait() returns once the counter is zero.
Wait ==
    /\ Alive
    /\ wpc = "waiting"
    /\ waitGroup = 0
    /\ wpc' = "returned"
    /\ UNCHANGED <<pc, paths, plugins, waitGroup, closed, wk, recv, results,
                   origs, reqBody, respBody, idx, buf, req, rets, errs>>
    /\ UNCHANGED <<calls, cvars>>

\* ------------------------------------------- callers that break the contract
\* SignalDone has returned and the producer goes on using the broker: its
\* next call is SendResult or SignalDone again.
Reuse ==
    /\ pc = "finished"
    /\ pc' = "idle"
    /\ UNCHANGED <<paths, plugins, waitGroup, closed, wk, recv, results,
                   origs, reqBody, respBody, idx, buf, req, rets, errs, wpc>>
    /\ UNCHANGED <<calls, cvars>>

\* Wait has returned and is called again.
WaitAgain ==
    /\ Alive
    /\ wpc = "returned"
    /\ wpc' = "idle"
    /\ UNCHANGED <<pc, paths, plugins, waitGroup, closed, wk, recv, results,
                   origs, reqBody, respBody, idx, buf, req, rets, errs>>
    /\ UNCHANGED <<calls, cvars>>

\* ------------------------------------------------ CloneBody taken alone
\* One wrapper (msgs[1], a Request or a Response) and the clones made of it
\* by successive CloneBody calls.  Streams and maps are heap objects named
\* by their index; 0 is nil.
Keys == {"K"}
HeaderValues == {"absent", "a", "b"}
TrailerValues == {"absent", "a"}

\* the fields of http.Response that Response.CloneBody copies by assignment
MetaPlain ==
    [Status |-> "200 OK", StatusCode |-> 200, Proto |-> "HTTP/1.1",
     ProtoMajor |-> 1, ProtoMinor |-> 1, ContentLength |-> 2,
     Close |-> FALSE, Uncompressed |-> FALSE]
MetaChunked ==
    [Status |-> "404 Not Found", StatusCode |-> 404, Proto |-> "HTTP/1.0",
     ProtoMajor |-> 1, ProtoMinor |-> 0, ContentLength |-> -1,
     Close |-> TRUE, Uncompressed |-> TRUE]

\* the wrappers CloneBody is called on: kind, metadata, transfer-encoding
\* list, and whether there is a trailer map
Wrappers ==
    {[kind |-> "Request", Meta |-> MetaPlain, TransferEncoding |-> <<>>,
      trailer |-> FALSE],
     [kind |-> "Response", Meta |-> MetaPlain, TransferEncoding |-> <<>>,
      trailer |-> FALSE],
     [kind |-> "Response", Meta |-> MetaChunked,
      TransferEncoding |-> <<"chunked">>, trailer |-> TRUE]}
WrapperBodies == {Nil, ErrBody, NopCloser(<<1, 2>>)}

\* Go's copy(dst, src): min(len(dst), len(src)) elements are copied
Copy(dst, src) ==
    [i \in 1..Len(dst) |-> IF i <= Len(src) THEN src[i] ELSE dst[i]]

\* what a read of msgs[m]'s body to the end yields
Remaining(m) ==
    IF msgs[m].Body = 0 THEN <<>> ELSE streams[msgs[m].Body].rest

\* The producer builds the wrapper: a header map with one entry, a body,
\* and for some responses a trailer map.
NewWrapper(w, b) ==
    /\ msgs = <<>>
    /\ cret = "none"
    /\ streams' = IF b = Nil THEN <<>> ELSE <<b>>
    /\ maps' = IF w.trailer
                 THEN <<[k \in Keys |-> "a"], [k \in Keys |-> "a"]>>
                 ELSE <<[k \in Keys |-> "a"]>>
    /\ msgs' = <<[kind |-> w.kind, Meta |-> w.Meta,
                  TransferEncoding |-> w.TransferEncoding,
                  Body |-> IF b = Nil THEN 0 ELSE 1,
                  Header |-> 1,
                  Trailer |-> IF w.trailer THEN 2 ELSE 0]>>
    /\ hist' = <<[base |-> b.rest, nread |-> 0, Header |-> "a",
                  Trailer |-> IF w.trailer THEN "a" ELSE "nil"]>>
    /\ cret' = cret
    /\ UNCHANGED bvars

\* the clone given the original's new stream instead of one of its own
SharedStream(n) == n + 1

\* The two ioutil.NopCloser(bytes.NewReader(body)) calls make two streams,
\* n+1 for the original and n+2 for the clone, n streams existing before.
CloneStream(n) == n + 2

\* a map handed over as it is instead of being cloned
HeaderShare(h, n) == h

\* Header.Clone(): nil for a nil map, else a new map (number n) with the
\* same entries.
HeaderClone(h, n) == IF h = 0 THEN 0 ELSE n

\* the heap of maps after the header and the trailer of wrapper r are cloned
ClonedMaps(r) ==
    LET withHeader == IF r.Header = 0 THEN maps
                      ELSE Append(maps, maps[r.Header])
    IN  IF r.Trailer = 0 THEN withHeader
        ELSE Append(withHeader, maps[r.Trailer])

\* the history of a clone made now: what its body, header and trailer hold
CloneHist ==
    [base |-> Remaining(1), nread |-> 0, Header |-> hist[1].Header,
     Trailer |-> hist[1].Trailer]

\* Request.CloneBody(ctx) on msgs[1], the whole call.
RequestCloneBody ==
    /\ msgs # <<>>
    /\ msgs[1].kind = "Request"
    /\ cret # "panic"
    /\ Len(msgs) <= MaxClones
    /\ LET r == msgs[1]
           withHeader == IF r.Header = 0 THEN Len(maps) ELSE Len(maps) + 1
           cloned == [r EXCEPT
                        !.Header = HeaderClone(r.Header, Len(maps) + 1),
                        !.Trailer = HeaderClone(r.Trailer, withHeader + 1)]
       IN  IF cloned.Body = 0
             THEN /\ msgs' = Append(msgs, cloned)
                  /\ maps' = ClonedMaps(r)
                  /\ hist' = Append(hist, CloneHist)
                  /\ cret' = "ok"
                  /\ UNCHANGED streams
             ELSE IF streams[cloned.Body].kind = "err"
               THEN /\ cret' = "err"
                    /\ UNCHANGED <<msgs, streams, maps, hist>>
               ELSE LET body == streams[cloned.Body].rest
                        n == Len(streams)
                    IN  /\ streams' =
                               [streams EXCEPT ![cloned.Body].rest = <<>>]
                               \o <<NopCloser(body), NopCloser(body)>>
                        /\ msgs' =
                               Append([msgs EXCEPT ![1].Body = n + 1],
                                      [cloned EXCEPT !.Body = CloneStream(n)])
                        /\ maps' = ClonedMaps(r)
                        /\ hist' = Append(hist, CloneHist)
                        /\ cret' = "ok"
    /\ UNCHANGED bvars

\* Response.CloneBody() on msgs[1], the whole call.
ResponseCloneBody ==
    /\ msgs # <<>>
    /\ msgs[1].kind = "Response"
    /\ cret # "panic"
    /\ Len(msgs) <= MaxClones
    /\ LET r == msgs[1]
           withHeader == IF r.Header = 0 THEN Len(maps) ELSE Len(maps) + 1
           n == Len(streams)
           newResponse ==
               [kind |-> "Response",
                Meta |-> [Status |-> r.Meta.Status,
                          StatusCode |-> r.Meta.StatusCode,
                          Proto |-> r.Meta.Proto,
                          ProtoMajor |-> r.Meta.ProtoMajor,
                          ProtoMinor |-> r.Meta.ProtoMinor,
                          ContentLength |-> r.Meta.ContentLength,
                          Close |-> r.Meta.Close,
                          Uncompressed |-> r.Meta.Uncompressed],
                TransferEncoding |-> Copy(<<>>, r.TransferEncoding),
                Body |-> CloneStream(n),
                Header |-> HeaderClone(r.Header, Len(maps) + 1),
                Trailer |-> HeaderClone(r.Trailer, withHeader + 1)]
       IN  IF r.Body = 0
             THEN /\ cret' = "panic"
                  /\ UNCHANGED <<msgs, streams, maps, hist>>
             ELSE IF streams[r.Body].kind = "err"
               THEN /\ cret' = "err"
                    /\ UNCHANGED <<msgs, streams, maps, hist>>
               ELSE LET body == streams[r.Body].rest
                    IN  /\ streams' = [streams EXCEPT ![r.Body].rest = <<>>]
                                      \o <<NopCloser(body), NopCloser(body)>>
                        /\ msgs' = Append([msgs EXCEPT ![1].Body = n + 1],
                                          newResponse)
                        /\ maps' = ClonedMaps(r)
                        /\ hist' = Append(hist, CloneHist)
                        /\ cret' = "ok"
    /\ UNCHANGED bvars

\* Whoever holds wrapper m reads one more byte of its body.
ReadBody(m) ==
    /\ cret # "panic"
    /\ msgs[m].Body # 0
    /\ streams[msgs[m].Body].kind = "data"
    /\ streams[msgs[m].Body].rest # <<>>
    /\ streams' = [streams EXCEPT ![msgs[m].Body].rest = Tail(@)]
    /\ hist' = [hist EXCEPT ![m].nread = @ + 1]
    /\ UNCHANGED <<msgs, maps, cret>>
    /\ UNCHANGED bvars

\* Whoever holds wrapper m adds, changes or deletes an entry of its header.
SetHeader(m, k, v) ==
    /\ cret # "panic"
    /\ msgs[m].Header # 0
    /\ maps[msgs[m].Header][k] # v
    /\ maps' = [maps EXCEPT ![msgs[m].Header][k] = v]
    /\ hist' = [hist EXCEPT ![m].Header = v]
    /\ UNCHANGED <<msgs, streams, cret>>
    /\ UNCHANGED bvars

\* The same on its trailer.
SetTrailer(m, k, v) ==
    /\ cret # "panic"
    /\ msgs[m].Trailer # 0
    /\ maps[msgs[m].Trailer][k] # v
    /\ maps' = [maps EXCEPT ![msgs[m].Trailer][k] = v]
    /\ hist' = [hist EXCEPT ![m].Trailer = v]
    /\ UNCHANGED <<msgs, streams, cret>>
    /\ UNCHANGED bvars

\* ------------------------------------------------- what plugins do (Listen)
Latest(i) == recv[i][Len(recv[i])]

\* Plugin i reads what is left of the request or response body of the
\* Result it received last.
PluginRead(i, k) ==
    /\ Alive
    /\ recv[i] # <<>>
    /\ IF k = "req"
         THEN /\ reqBody[Latest(i).req].kind = "data"
              /\ reqBody[Latest(i).req].rest # <<>>
              /\ reqBody' = [reqBody EXCEPT ![Latest(i).req] = NopCloser(<<>>)]
              /\ UNCHANGED respBody
         ELSE /\ respBody[Latest(i).resp].kind = "data"
              /\ respBody[Latest(i).resp].rest # <<>>
              /\ respBody' = [respBody EXCEPT ![Latest(i).resp] = NopCloser(<<>>)]
              /\ UNCHANGED reqBody
    /\ UNCHANGED <<pc, paths, plugins, waitGroup, closed, wk, recv, results,
                   origs, idx, buf, req, rets, errs, wpc>>
    /\ UNCHANGED <<calls, cvars>>

\* Plugin i replaces the Body of the request it received last.  Only a
\* replacement the broker goes on to read is modelled: the request is the one
\* the Result still points to, and SendResult is about to clone it.
PluginSetBody(i, b) ==
    /\ pc = "reqClone"
    /\ recv[i] # <<>>
    /\ Latest(i).req = results[cur].Request
    /\ reqBody[Latest(i).req] # b
    /\ reqBody' = [reqBody EXCEPT ![Latest(i).req] = b]
    /\ UNCHANGED <<pc, paths, plugins, waitGroup, closed, wk, recv, results,
                   origs, respBody, idx, buf, req, rets, errs, wpc>>
    /\ UNCHANGED <<calls, cvars>>

\* ---------------------------------------------------------- specifications
Load == \E out \in LoadOutcomes : LoadPlugins(out)
Start == \E i \in Registered : Run(i)
Closed == \E i \in Registered : ListenReturn(i)
Finish == \E i \in Registered : Done(i)
Stall == \E i \in Registered : ListenStall(i)
NewResult == \E rb \in RequestBodies, pb \in ResponseBodies : SendResult(rb, pb)
Deliver == \E i \in Registered : Send(i)
Read == \E i \in Registered, k \in BodyKinds : PluginRead(i, k)
SetBody == \E i \in Registered, b \in PluginBodies : PluginSetBody(i, b)

\* The broker and its workers, with Listeners that receive until their
\* channel is closed.
Broker ==
    \/ Load
    \/ LoadReturn
    \/ Start
    \/ Closed
    \/ Finish
    \/ NewResult
    \/ RequestCloneBodyRead
    \/ RequestCloneBodyPut
    \/ ResponseCloneBodyRead
    \/ ResponseCloneBodyPut
    \/ Deliver
    \/ SignalDoneCall
    \/ SignalDone
    \/ WaitCall
    \/ Wait

\* ... with Listeners that may stop receiving or replace a body
Dispatch == Broker \/ Stall \/ SetBody

\* ... and that read the bodies they are handed.  A read changes only the
\* bytes a stream has left, which no step of the broker tests: Dispatch and
\* Next differ in what bodies hold, not in who receives what or when.
Next == Dispatch \/ Read

Spec == Init /\ [][Next]_vars
DispatchSpec == Init /\ [][Dispatch]_vars

\* Every goroutine that can run does run: the workers, SignalDone's loop
\* once called, and Wait.
Fairness ==
    /\ \A i \in Slots : WF_vars(Run(i)) /\ WF_vars(ListenReturn(i))
                        /\ WF_vars(Done(i))
    /\ WF_vars(SignalDone)
    /\ WF_vars(Wait)

FairSpec == Init /\ [][Broker]_vars /\ Fairness

\* CloneBody taken alone: one wrapper, its clones, and their holders.
Build == \E w \in Wrappers, b \in WrapperBodies : NewWrapper(w, b)
Consume == \E m \in 1..Len(msgs) : ReadBody(m)
EditHeader ==
    \E m \in 1..Len(msgs), k \in Keys, v \in HeaderValues : SetHeader(m, k, v)
EditTrailer ==
    \E m \in 1..Len(msgs), k \in Keys, v \in TrailerValues :
        SetTrailer(m, k, v)
CloneNext ==
    \/ Build
    \/ RequestCloneBody
    \/ ResponseCloneBody
    \/ Consume
    \/ EditHeader
    \/ EditTrailer
CloneSpec == Init /\ [][CloneNext]_vars

\* The broker with callers that do not keep to "SendResult any number of
\* times, then SignalDone once".
Misuse == Broker \/ Reuse \/ WaitAgain
MisuseSpec == Init /\ [][Misuse]_vars

\* ------------------------------------------------------------------ claims
\* the deliveries plugin i's Listen has received
Holds(i) == {recv[i][k] : k \in 1..Len(recv[i])}
\* how many times plugin i has received Result r
Count(i, r) == Cardinality({k \in 1..Len(recv[i]) : recv[i][k].res = r})
\* a SendResult call is in progress
InCall == pc \in {"reqClone", "reqPut", "respClone", "respPut", "send"}
\* plugins 1..k-1 have received Result r once, plugins k.. have not
DeliveredBelow(r, k) ==
    \A i \in Registered : Count(i, r) = IF i < k THEN 1 ELSE 0

\* C1: no two plugins hold a reference to the same Result, Request or
\* Response, and SendResult's later iterations never clone (read, drain and
\* replace the body of) a Request or Response that a plugin has received.
C1_ExclusiveOwnership ==
    /\ \A i, j \in Registered : \A d \in Holds(i), e \in Holds(j) :
         i # j => d.res # e.res /\ d.req # e.req /\ d.resp # e.resp
    /\ InCall => \A i \in Registered : \A d \in Holds(i) :
         d.req # results[cur].Request /\ d.resp # results[cur].Response

\* C2: the Request and Response that SendResult is about to hand to a plugin
\* hold exactly the bytes the producer put in the Result, so a plugin that
\* reads its delivery reads the original K bytes.
C2_ByteIdentical ==
    pc = "send" =>
        /\ reqBody[results[cur].Request] = origs[cur].reqBody
        /\ respBody[results[cur].Response] = origs[cur].respBody

\* C3: after SendResult has returned nil the Result points to the Request
\* and Response it pointed to before the call, and no plugin holds them.
C3_OriginalRestored ==
    \A r \in 1..Len(rets) : rets[r] = "nil" =>
        /\ results[r].Request = origs[r].Request
        /\ results[r].Response = origs[r].Response
        /\ \A i \in Registered : \A d \in Holds(i) :
             d.req # results[r].Request /\ d.resp # results[r].Response
\* C4: every plugin receives Results in the order of the SendResult calls,
\* none twice; and when every call so far has returned nil, what it has
\* received of them is exactly R1, R2, ..., Rn.
C4_OrderPreserved ==
    \A i \in Registered :
        /\ \A k \in 1..(Len(recv[i]) - 1) : recv[i][k].res < recv[i][k + 1].res
        /\ (\A r \in 1..Len(rets) : rets[r] = "nil") =>
               \A r \in 1..Len(rets) :
                   Len(recv[i]) >= r /\ recv[i][r].res = r

C4_Witness ==
    /\ plugins = 2
    /\ rets = <<"nil", "nil">>
    /\ \A i \in Registered : Len(recv[i]) = 2

\* C5: once SendResult has returned nil, every registered plugin has received
\* that Result exactly once; SendResult has returned an error exactly for
\* the Results for which a CloneBody call failed.
C5_CompleteFanOut ==
    /\ \A r \in 1..Len(rets) :
         /\ rets[r] = "nil" => \A i \in Registered : Count(i, r) = 1
         /\ rets[r] = "err" <=> r \in errs
    /\ \A r \in errs : r <= Len(rets)

C5_Witness ==
    /\ plugins = 2
    /\ rets = <<"nil", "err">>
    /\ \A i \in Registered : Count(i, 1) = 1

\* C6: when a clone fails while dispatching to plugin k, plugins 1..k-1 have
\* received the Result once, plugins k..N have not received it, and
\* SendResult has returned the error (it is not waiting on a send).
C6_PartialDelivery ==
    /\ \A r \in errs :
         /\ r <= Len(rets) /\ rets[r] = "err"
         /\ \E k \in Registered : DeliveredBelow(r, k)
    /\ (pc = "idle" /\ cur \in errs) => DeliveredBelow(cur, idx)

C6_Witness ==
    /\ plugins = 2
    /\ pc = "idle"
    /\ cur \in errs
    /\ idx = 2
    /\ Count(1, cur) = 1
    /\ Count(2, cur) = 0

C8_PluginsCannotBlock ==
    \A i \in Registered :
        wk[i] = "Stalled" => ~(pc = "send" /\ idx = i)

\* C9: with Listeners that receive until their channel is closed, once the
\* producer has called SignalDone every worker finishes, and a Wait that
\* has been called returns.
C9_ShutdownLiveness ==
    /\ (pc \in {"closing", "finished"}) ~>
           (\A i \in Registered : wk[i] = "Done")
    /\ (pc \in {"closing", "finished"} /\ wpc = "waiting") ~>
           (wpc = "returned")

C9_Witness ==
    /\ plugins = 2
    /\ pc = "finished"
    /\ rets # <<>>
    /\ wpc = "returned"
    /\ \A i \in Registered : wk[i] = "Done"

\* C10: Wait has returned only if every registered plugin's Listen has
\* returned and its worker has finished, which takes SignalDone to have
\* closed every channel.
C10_WaitSafety ==
    wpc = "returned" =>
        \A i \in Registered : wk[i] = "Done" /\ closed[i]

C10_Witness ==
    /\ plugins = 2
    /\ wpc = "returned"
    /\ rets # <<>>
\* C12: LoadPlugins returns no broker exactly when some path failed, at any
\* position; a broker it returns holds one plugin for every path, in order.
C12_AllOrNothing ==
    /\ (\E k \in 1..Len(paths) : paths[k] # "ok") <=> pc = "noBroker"
    /\ pc # "noBroker" =>
         /\ plugins = Len(paths)
         /\ \A k \in 1..Len(paths) : paths[k] = "ok"

C12_Witness ==
    /\ pc = "noBroker"
    /\ Len(paths) = 2
    /\ paths[1] = "ok"
    /\ plugins = 1

\* the steps of a worker: Idle, Consuming (in Listen: Listening, Stalled, or
\* Returned with waitGroup.Done still to come), Done
WorkerSteps ==
    {<<"none", "Idle">>, <<"Idle", "Listening">>, <<"Listening", "Stalled">>,
     <<"Listening", "Returned">>, <<"Returned", "Done">>}

\* C15: a worker only moves Idle -> Consuming -> Done and stays Done; its
\* Listen has returned only if SignalDone has closed its channel; the
\* completion counter is the number of registered plugins whose worker is
\* not Done, and is never negative.
C15_WorkerLifecycle ==
    /\ [](/\ waitGroup = Cardinality({i \in Registered : wk[i] # "Done"})
          /\ waitGroup >= 0
          /\ \A i \in Slots :
               wk[i] \in {"Returned", "Done"} =>
                   closed[i] /\ pc \in {"closing", "finished", "panic"})
    /\ [][\A i \in Slots :
            wk'[i] # wk[i] => <<wk[i], wk'[i]>> \in WorkerSteps]_vars

C15_Witness ==
    /\ plugins = 2
    /\ wk[1] = "Done"
    /\ wk[2] = "Listening"
    /\ waitGroup = 1

\* C18: after LoadPlugins has failed, the workers it started are still in
\* Listen, have received nothing, their channels are open and the counter
\* still counts them; nothing else ever happens to the discarded broker.
C18_OrphanedWorkers ==
    /\ [](pc = "noBroker" =>
            /\ waitGroup = plugins
            /\ \A i \in Registered :
                 /\ wk[i] \in {"Idle", "Listening", "Stalled"}
                 /\ recv[i] = <<>>
                 /\ ~closed[i])
    /\ [][pc = "noBroker" =>
            /\ pc' = "noBroker"
            /\ closed' = closed /\ recv' = recv /\ wpc' = wpc]_vars

C18_Witness ==
    /\ pc = "noBroker"
    /\ Len(paths) = 2
    /\ plugins = 1
    /\ wk[1] = "Listening"

\* C20: SendResult does not fault on a Result whose request or response has
\* no body.
C20_AbsentBodies ==
    (cur >= 1 /\ (origs[cur].reqBody = Nil \/ origs[cur].respBody = Nil)) =>
        pc # "panic"
\* C17: the broker never changes a Result's Payload, Location, FieldName or
\* TimeElapsed, and what it replaces while cloning are body streams only:
\* the Result goes on naming the Request and the Response it was built with.
C17_MetadataFrozen ==
    \A r \in 1..cur :
        /\ results[r].Metadata = origs[r].Metadata
        /\ results[r].Metadata = Metadata(r)
        /\ <<results[r].Request, results[r].Response>> =
               <<origs[r].Request, origs[r].Response>>

\* the part of C17 about the four metadata fields alone
C17_FieldsKept ==
    \A r \in 1..cur : results[r].Metadata = origs[r].Metadata
\* position in calls of the first SignalDone call (past the end if none)
FirstSignal ==
    IF Signals = 0 THEN Len(calls) + 1
    ELSE CHOOSE k \in 1..Len(calls) :
           /\ calls[k] = "SignalDone"
           /\ \A j \in 1..(k - 1) : calls[j] # "SignalDone"
\* position in calls of the SendResult call for Result r
CallOf(r) ==
    CHOOSE k \in 1..Len(calls) :
      /\ calls[k] = "SendResult"
      /\ Cardinality({j \in 1..k : calls[j] = "SendResult"}) = r
\* some call has been made after the first SignalDone call
Misused == plugins >= 1 /\ Len(calls) > FirstSignal

\* C11: on a broker without plugins, whatever calls are made and in whatever
\* order: no call blocks or faults, every SendResult has returned nil, no
\* CloneBody has run (no error, no new wrapper, the Result and its bodies
\* are as the producer built them), no channel is closed and Wait's counter
\* is zero, so Wait returns as soon as it is called.
C11_ZeroPlugins ==
    (plugins = 0 /\ pc \notin {"load", "noBroker"}) =>
        /\ pc \in {"idle", "finished"}
        /\ Len(rets) = cur
        /\ \A r \in 1..cur : rets[r] = "nil"
        /\ errs = {}
        /\ Len(reqBody) = cur /\ Len(respBody) = cur
        /\ \A r \in 1..cur :
             /\ results[r].Request = origs[r].Request
             /\ results[r].Response = origs[r].Response
             /\ results[r].Metadata = origs[r].Metadata
             /\ reqBody[results[r].Request] = origs[r].reqBody
             /\ respBody[results[r].Response] = origs[r].respBody
        /\ \A i \in Slots : ~closed[i] /\ recv[i] = <<>>
        /\ waitGroup = 0
        /\ wpc = "waiting" => ENABLED Wait

C11_Witness ==
    /\ plugins = 0
    /\ calls = <<"SendResult", "SignalDone", "SendResult", "SignalDone">>
    /\ rets = <<"nil", "nil">>
    /\ origs[2].reqBody = ErrBody
    /\ origs[1].respBody = Nil
    /\ pc = "finished"
    /\ wpc = "returned"

\* C19 as stated: with at least one plugin, a call made after SignalDone
\* never returns.
C19_MisuseFaults ==
    Misused => pc \notin {"idle", "finished"}

\* C19, amended: with at least one plugin, no Result sent after SignalDone
\* is received by a plugin and no SendResult made after SignalDone returns
\* nil: it either faults or returns the error of a CloneBody call that
\* failed before the send; a second SignalDone never returns.
C19_MisuseNeverDelivers ==
    plugins >= 1 =>
        /\ \A i \in Registered : \A d \in Holds(i) : CallOf(d.res) < FirstSignal
        /\ \A r \in 1..Len(rets) :
             CallOf(r) > FirstSignal => rets[r] = "err" /\ r \in errs
        /\ (Misused /\ pc \in {"idle", "finished"}) =>
               calls[Len(calls)] = "SendResult"
        /\ Signals >= 2 => pc \in {"closing", "panic"}

C19_Witness ==
    /\ plugins = 1
    /\ calls = <<"SignalDone", "SendResult">>
    /\ rets = <<"err">>
    /\ pc = "idle"

\* the other outcome of C19: the call made after SignalDone has faulted
C19_Faulted ==
    /\ plugins = 1
    /\ calls = <<"SignalDone", "SendResult">>
    /\ pc = "panic"
    /\ origs[1].respBody # Nil
Drop(seq, n) == SubSeq(seq, n + 1, Len(seq))
\* the wrappers that have a body that can be read
Readable == {m \in 1..Len(msgs) :
               msgs[m].Body # 0 /\ streams[msgs[m].Body].kind = "data"}

\* C13: after any number of successful CloneBody calls on a wrapper, the
\* original and every clone have a stream of their own, each yields what it
\* held when made less what has been read from it and from no other, and
\* while the original is unread every clone was made with the original's
\* content B.
C13_IdempotentCloning ==
    \A m \in Readable :
        /\ Remaining(m) = Drop(hist[m].base, hist[m].nread)
        /\ hist[1].nread = 0 => hist[m].base = hist[1].base
        /\ \A k \in 1..Len(msgs) : k # m => msgs[k].Body # msgs[m].Body

C13_Witness ==
    /\ Len(msgs) = 3
    /\ msgs[1].kind = "Request"
    /\ Remaining(1) = <<1, 2>>
    /\ hist[1].nread = 0
    /\ Remaining(2) = <<>>
    /\ hist[2].nread = 2
    /\ Remaining(3) = <<2>>

\* C14: every clone of a Response has the original's status, status code,
\* protocol version, content length, connection-close flag, uncompressed
\* flag and transfer-encoding list.
C14_VerbatimMetadata ==
    \A m \in 2..Len(msgs) :
        msgs[1].kind = "Response" =>
            /\ msgs[m].Meta = msgs[1].Meta
            /\ msgs[m].TransferEncoding = msgs[1].TransferEncoding

\* the part of C14 that leaves the transfer-encoding list out
C14_MetaKept ==
    \A m \in 2..Len(msgs) : msgs[m].Meta = msgs[1].Meta

\* C16: the header map and the trailer map of the original and of every
\* clone hold what was last written through that wrapper, or, if nothing
\* was, what the original's held when the clone was made: a write through
\* one wrapper shows through no other.
C16_HeaderIndependence ==
    \A m \in 1..Len(msgs) :
        /\ msgs[m].Header # 0
        /\ \A k \in Keys : maps[msgs[m].Header][k] = hist[m].Header
        /\ (msgs[m].Trailer = 0) <=> (hist[m].Trailer = "nil")
        /\ msgs[m].Trailer # 0 =>
             \A k \in Keys : maps[msgs[m].Trailer][k] = hist[m].Trailer
        /\ \A n \in 1..Len(msgs) : n # m =>
             /\ msgs[n].Header # msgs[m].Header
             /\ msgs[m].Trailer # 0 => msgs[n].Trailer # msgs[m].Trailer

C16_Witness ==
    /\ Len(msgs) = 3
    /\ msgs[1].kind = "Response"
    /\ msgs[1].Trailer # 0
    /\ maps[msgs[1].Header]["K"] = "a"
    /\ maps[msgs[2].Header]["K"] = "absent"
    /\ maps[msgs[3].Header]["K"] = "b"
    /\ maps[msgs[1].Trailer]["K"] = "absent"
    /\ maps[msgs[2].Trailer]["K"] = "a"
====
